---- MODULE Spec2Model ----
(***************************************************************************)
(* Model of the video brand automator: the pure timing and scale           *)
(* calculations, the two render backends (mode_moviepy, mode_ffmpeg_cli),  *)
(* the per-video orchestrator (process_single_video) and the batch loops   *)
(* of the CLI (main) and of the control panel (run_processing_job).        *)
(*                                                                         *)
(* Python floats are modelled as exact rationals <<numerator, denominator>>*)
(* in lowest terms with a positive denominator; float rounding is not      *)
(* modelled.  Optional[float] is <<>> (None) or <<x>>.                     *)
(***************************************************************************)
EXTENDS Integers, Sequences, FiniteSets, TLC

VARIABLES
    params,     \* the shared job parameters handed to process_single_video
    tasks,      \* the discovered queue: <<[vid, out], ...>>
    fs,         \* the output folder: output path -> what the file holds
    run,        \* which run of the batch this is (1 = first)
    idx,        \* index of the job the loop is at
    pc,         \* position of the control thread
    cur,        \* the job in progress: its media and its normalized fraction
    jobs,       \* per job: what happened to it and how the loop recorded it
    videos_processed_count,             \* main's counter / the panel's success_count
    total_video_duration_processed,     \* main's metric
    renders,    \* the writes and encoder invocations of this run, in order
    opens,      \* per job: how often the video and the image were opened/probed
    attempted,  \* the jobs the loop has taken up in this run, in order
    unit        \* a call of one of the pure functions: its inputs and result

vars == <<params, tasks, fs, run, idx, pc, cur, jobs, videos_processed_count,
          total_video_duration_processed, renders, opens, attempted, unit>>

batchVars == <<params, tasks, fs, run, idx, pc, cur, jobs, videos_processed_count,
               total_video_duration_processed, renders, opens, attempted>>

----------------------------------------------------------------------------
(* Bounds *)

MaxFiles == 3
MaxDur == 10
MaxReq == 5
MaxPct == 105

----------------------------------------------------------------------------
(* Float arithmetic, exact *)

Abs(x) == IF x < 0 THEN -x ELSE x

RECURSIVE GCD(_, _)
GCD(a, b) == IF b = 0 THEN a ELSE GCD(b, a % b)

Rat(n, d) ==
    LET s == IF d < 0 THEN -1 ELSE 1
        g == GCD(Abs(n), Abs(d))
    IN  <<(s * n) \div g, (s * d) \div g>>

R(n) == <<n, 1>>

RMul(a, b) == Rat(a[1] * b[1], a[2] * b[2])
RDiv(a, b) == Rat(a[1] * b[2], a[2] * b[1])
RAdd(a, b) == Rat(a[1] * b[2] + b[1] * a[2], a[2] * b[2])
RSub(a, b) == Rat(a[1] * b[2] - b[1] * a[2], a[2] * b[2])
RLeq(a, b) == a[1] * b[2] <= b[1] * a[2]
RLt(a, b) == a[1] * b[2] < b[1] * a[2]
RMin(a, b) == IF RLeq(a, b) THEN a ELSE b

None == <<>>
Some(x) == <<x>>

----------------------------------------------------------------------------
(* Pure calculations *)

\* Mutant: the duration is clamped to the video's length, not to what remains.
GetOverlayTimingClampToDuration(video_duration, start_pct, target_duration) ==
    LET start_time == RMul(video_duration, start_pct)
    IN  IF RLeq(video_duration, start_time)
        THEN <<start_time, R(0)>>
        ELSE <<start_time, RMin(target_duration, video_duration)>>

\* Mutant: the remaining time is not taken into account.
GetOverlayTimingNoClamp(video_duration, start_pct, target_duration) ==
    LET start_time == RMul(video_duration, start_pct)
    IN  IF RLeq(video_duration, start_time)
        THEN <<start_time, R(0)>>
        ELSE <<start_time, target_duration>>

GetOverlayTiming(video_duration, start_pct, target_duration) ==
    LET start_time == RMul(video_duration, start_pct)
    IN  IF RLeq(video_duration, start_time)
        THEN <<start_time, R(0)>>
        ELSE LET remaining == RSub(video_duration, start_time)
             IN  <<start_time, RMin(target_duration, remaining)>>

\* Mutant: the larger of the two candidate scales is chosen.
CalculateSmartScaleMax(video_size, image_size, margin_pct) ==
    LET safe_w == RMul(R(video_size[1]), RSub(R(1), RMul(R(2), margin_pct)))
        safe_h == RMul(R(video_size[2]), RSub(R(1), RMul(R(2), margin_pct)))
        scale_w == RDiv(safe_w, R(image_size[1]))
        scale_h == RDiv(safe_h, R(image_size[2]))
    IN  IF RLeq(scale_w, scale_h) THEN scale_h ELSE scale_w

CalculateSmartScale(video_size, image_size, margin_pct) ==
    LET safe_w == RMul(R(video_size[1]), RSub(R(1), RMul(R(2), margin_pct)))
        safe_h == RMul(R(video_size[2]), RSub(R(1), RMul(R(2), margin_pct)))
        scale_w == RDiv(safe_w, R(image_size[1]))
        scale_h == RDiv(safe_h, R(image_size[2]))
    IN  RMin(scale_w, scale_h)

\* Mutant: every start value is taken as a percentage.
NormalizePctAlways(start_percent) == RDiv(start_percent, R(100))

NormalizePct(start_percent) ==
    IF RLt(R(1), start_percent) THEN RDiv(start_percent, R(100)) ELSE start_percent

ValidPct(final_pct) == RLeq(R(0), final_pct) /\ RLeq(final_pct, R(1))

\* add_product_placement.main: the same normalization, then its own range test
SingleNormalizePct(start_percent) ==
    IF RLt(R(1), start_percent) THEN RDiv(start_percent, R(100)) ELSE start_percent

SingleRejects(final_pct) == RLt(final_pct, R(0)) \/ RLt(R(1), final_pct)

----------------------------------------------------------------------------
(* Strings, as sequences of characters, and the str methods the code calls *)

Digits == {"0", "1", "2", "3", "4", "5", "6", "7", "8", "9"}

DigitVal(c) ==
    CASE c = "0" -> 0 [] c = "1" -> 1 [] c = "2" -> 2 [] c = "3" -> 3 [] c = "4" -> 4
      [] c = "5" -> 5 [] c = "6" -> 6 [] c = "7" -> 7 [] c = "8" -> 8 [] c = "9" -> 9

\* c in s
Contains(s, c) == \E i \in 1..Len(s) : s[i] = c

\* index of the first c in s (s contains c)
IndexOf(s, c) == CHOOSE k \in 1..Len(s) : s[k] = c /\ \A j \in 1..(k - 1) : s[j] # c

\* s.split(c)
RECURSIVE Split(_, _)
Split(s, c) ==
    IF ~Contains(s, c) THEN <<s>>
    ELSE LET i == IndexOf(s, c)
         IN  <<SubSeq(s, 1, i - 1)>> \o Split(SubSeq(s, i + 1, Len(s)), c)

\* s.strip()
RECURSIVE Strip(_)
Strip(s) ==
    IF s = <<>> THEN s
    ELSE IF s[1] = " " THEN Strip(Tail(s))
    ELSE IF s[Len(s)] = " " THEN Strip(SubSeq(s, 1, Len(s) - 1))
    ELSE s

\* s.replace(c, "", 1)
ReplaceFirst(s, c) ==
    IF ~Contains(s, c) THEN s
    ELSE LET i == IndexOf(s, c)
         IN  SubSeq(s, 1, i - 1) \o SubSeq(s, i + 1, Len(s))

\* s.isdigit()
IsDigit(s) == s # <<>> /\ \A i \in 1..Len(s) : s[i] \in Digits

RECURSIVE IntOf(_)
IntOf(s) ==
    IF s = <<>> THEN 0
    ELSE 10 * IntOf(SubSeq(s, 1, Len(s) - 1)) + DigitVal(s[Len(s)])

RECURSIVE Pow10(_)
Pow10(n) == IF n = 0 THEN 1 ELSE 10 * Pow10(n - 1)

\* float(s), for s made of digits and at most one "."
Float(s) ==
    LET frac == IF Contains(s, ".") THEN Len(s) - IndexOf(s, ".") ELSE 0
    IN  Rat(IntOf(ReplaceFirst(s, ".")), Pow10(frac))

\* f"{x:.3f}", as the number the text denotes: x to the nearest thousandth,
\* a tie to the even one
Format3f(x) ==
    LET n == x[1] * 1000
        q == n \div x[2]
        r == n - q * x[2]
        k == IF 2 * r > x[2] THEN q + 1
             ELSE IF 2 * r = x[2] /\ q % 2 = 1 THEN q + 1
             ELSE q
    IN  Rat(k, 1000)

----------------------------------------------------------------------------
(* Positions *)

S_center == <<"c", "e", "n", "t", "e", "r">>
S_top_left == <<"t", "o", "p", "-", "l", "e", "f", "t">>
S_top_right == <<"t", "o", "p", "-", "r", "i", "g", "h", "t">>
S_bottom_left == <<"b", "o", "t", "t", "o", "m", "-", "l", "e", "f", "t">>
S_bottom_right == <<"b", "o", "t", "t", "o", "m", "-", "r", "i", "g", "h", "t">>
XY_center == <<"x", "=", "(", "W", "-", "w", ")", "/", "2", ":", "y", "=", "(", "H", "-", "h", ")", "/", "2">>
XY_top_left == <<"x", "=", "0", ":", "y", "=", "0">>
XY_top_right == <<"x", "=", "W", "-", "w", ":", "y", "=", "0">>
XY_bottom_left == <<"x", "=", "0", ":", "y", "=", "H", "-", "h">>
XY_bottom_right == <<"x", "=", "W", "-", "w", ":", "y", "=", "H", "-", "h">>

\* A position as a backend receives it: a string, or a pair of floats
PosStr(s) == [kind |-> "str", str |-> s, x |-> R(0), y |-> R(0)]
PosXY(x, y) == [kind |-> "xy", str |-> <<>>, x |-> x, y |-> y]
NoPos == PosStr(<<>>)

\* process_single_video, the moviepy branch: "x,y" becomes a pair of floats,
\* anything with a comma that is not two plain numbers becomes (0.0, 0.0)
ParsePosition(position) ==
    IF ~Contains(position, ",") THEN PosStr(position)
    ELSE LET parts == Split(position, ",")
         IN  IF Len(parts) # 2 THEN PosXY(R(0), R(0))
             ELSE LET x == Strip(parts[1])
                      y == Strip(parts[2])
                  IN  IF IsDigit(ReplaceFirst(x, ".")) /\ IsDigit(ReplaceFirst(y, "."))
                      THEN PosXY(Float(x), Float(y))
                      ELSE PosXY(R(0), R(0))

\* The position process_single_video hands to the backend of `mode`
PosArg(mode, position) ==
    IF mode = "moviepy" THEN ParsePosition(position) ELSE PosStr(position)

\* add_product_placement.main, the moviepy branch: a component that is not a
\* plain number stays a string, and the string is kept when the split fails
SinglePosArg(position) ==
    IF ~Contains(position, ",") THEN PosStr(position)
    ELSE LET parts == Split(position, ",")
         IN  IF Len(parts) # 2 THEN PosStr(position)
             ELSE LET x == Strip(parts[1])
                      y == Strip(parts[2])
                      xnum == IsDigit(ReplaceFirst(x, "."))
                      ynum == IsDigit(ReplaceFirst(y, "."))
                  IN  [kind |-> IF xnum /\ ynum THEN "xy" ELSE "mixed",
                       str |-> IF xnum /\ ynum THEN <<>> ELSE position,
                       x |-> IF xnum THEN Float(x) ELSE R(0),
                       y |-> IF ynum THEN Float(y) ELSE R(0)]

pos_map ==
    (S_center :> XY_center) @@ (S_top_left :> XY_top_left)
    @@ (S_top_right :> XY_top_right) @@ (S_bottom_left :> XY_bottom_left)
    @@ (S_bottom_right :> XY_bottom_right)

\* Mutant: a string that is not in the table is dropped.
PosMapGetDropsUnknown(position) ==
    IF position \in DOMAIN pos_map THEN pos_map[position] ELSE <<>>

\* pos_map.get(position, position)
PosMapGet(position) ==
    IF position \in DOMAIN pos_map THEN pos_map[position] ELSE position

----------------------------------------------------------------------------
(* The inputs of a batch *)

Callers == {"cli", "gui"}
Modes == {"moviepy", "ffmpeg"}

\* --start-percent as given: a percentage, 100 (the very end), out of range
StartPercents == {R(75), R(100), R(105)}
DurationSecs == {R(MaxReq)}
\* (scale, margin): smart fit with a 5% margin, or a forced scale
ScaleSpecs == {<<None, Rat(5, 100)>>, <<Some(Rat(1, 2)), R(0)>>}

\* What a video file turns out to be when it is opened
VideoMedia ==
    { [ok |-> TRUE, duration |-> R(MaxDur), size |-> <<640, 360>>],
      [ok |-> TRUE, duration |-> R(0), size |-> <<640, 360>>],
      [ok |-> FALSE, duration |-> R(0), size |-> <<0, 0>>] }
ImageMedia ==
    { [ok |-> TRUE, size |-> <<100, 100>>],
      [ok |-> FALSE, size |-> <<0, 0>>] }
NoVideo == [ok |-> FALSE, duration |-> R(0), size |-> <<0, 0>>]

\* How a write_videofile call or an encoder process ends
WriteOutcomes == {"ok", "error"}
EncoderOutcomes == {"ok", "nonzero", "notfound"}
ProbeTools == {"present", "missing"}

\* The files of the video folder, in the order discovery lists them:
\* extension by extension, a.mp4, b.mp4, a.mov, b.mov, ...
Bases == <<"a", "b">>
Exts == <<"mp4", "mov", "mkv", "avi", "webm">>
FileAt(i) == [base |-> Bases[((i - 1) % 2) + 1], ext |-> Exts[((i - 1) \div 2) + 1]]

OutputName(v) == v.base

DiscoverTasks(n) == [i \in 1..n |-> [vid |-> FileAt(i), out |-> OutputName(FileAt(i))]]

OutPaths == {Bases[i] : i \in 1..Len(Bases)}

\* What an output file holds
NoFile == [kind |-> "none", run |-> 0, job |-> 0]
OldFile == [kind |-> "old", run |-> 0, job |-> 0]
Exists(path) == fs[path].kind # "none"

NoPlan == [kind |-> "none", flag |-> "none", start |-> R(0), dur |-> R(0), scale |-> R(0)]
NoJob == [video |-> NoVideo, final_pct |-> R(0), plan |-> NoPlan]
Pending == [state |-> "PENDING", reason |-> "none", recorded |-> "none"]
NoOpens == [video |-> 0, image |-> 0]
\* A call's inputs and results are tuples; results of different kinds of call
\* have different lengths.
UnitIdle == [op |-> "idle", in |-> <<>>, out |-> <<>>, ok |-> FALSE, rejected |-> FALSE]

StartRun(n) ==
    /\ idx = 1
    /\ pc = "loop"
    /\ cur = NoJob
    /\ jobs = [i \in 1..n |-> Pending]
    /\ videos_processed_count = 0
    /\ total_video_duration_processed = R(0)
    /\ renders = <<>>
    /\ opens = [i \in 1..n |-> NoOpens]
    /\ attempted = <<>>

Init ==
    /\ \E c \in Callers, m \in Modes, o \in BOOLEAN, sp \in StartPercents,
          d \in DurationSecs, ss \in ScaleSpecs :
          /\ c = "gui" => o
          /\ params = [caller |-> c, mode |-> m, overwrite |-> o, start_percent |-> sp,
                       duration_sec |-> d, scale |-> ss[1], margin |-> ss[2]]
    /\ \E n \in 1..MaxFiles : tasks = DiscoverTasks(n)
    /\ \E old \in SUBSET OutPaths :
          fs = [p \in OutPaths |-> IF p \in old THEN OldFile ELSE NoFile]
    /\ run = 1
    /\ StartRun(Len(tasks))
    /\ unit = UnitIdle

----------------------------------------------------------------------------
(* The batch loop *)

Job == tasks[idx]
Overwrite == params.overwrite

\* Mutant: a failure leaves the loop.
AfterJobAbort(raised) ==
    /\ videos_processed_count' = IF raised THEN videos_processed_count
                                 ELSE videos_processed_count + 1
    /\ idx' = IF raised THEN idx ELSE idx + 1
    /\ pc' = IF raised THEN "summary" ELSE "loop"
    /\ cur' = NoJob

\* Mutant: a job that raised is taken up again.
AfterJobRetry(raised) ==
    /\ videos_processed_count' = IF raised THEN videos_processed_count
                                 ELSE videos_processed_count + 1
    /\ idx' = IF raised THEN idx ELSE idx + 1
    /\ pc' = "loop"
    /\ cur' = NoJob

\* process_single_video came back (the counter is incremented), or an exception
\* reached the loop's handler; either way the loop goes on to the next job.
AfterJob(raised) ==
    /\ videos_processed_count' = IF raised THEN videos_processed_count
                                 ELSE videos_processed_count + 1
    /\ idx' = idx + 1
    /\ pc' = "loop"
    /\ cur' = NoJob

\* The job ends in `state`; `raised` says whether an exception left
\* process_single_video (or get_vid_duration) or it returned.
FinishJob(state, reason, raised) ==
    /\ jobs' = [jobs EXCEPT ![idx] =
                  [state |-> state, reason |-> reason,
                   recorded |-> IF raised THEN "failed" ELSE "counted"]]
    /\ AfterJob(raised)

\* main: the head of one iteration, with get_vid_duration for the metric.
\* run_processing_job: the head of one iteration (no metric probe).
LoopNext ==
    /\ pc = "loop"
    /\ idx <= Len(tasks)
    /\ attempted' = Append(attempted, idx)
    /\ \E v \in VideoMedia, escapes \in BOOLEAN :
         /\ escapes => (params.caller = "cli" /\ ~v.ok)
         /\ opens' = IF params.caller = "cli"
                     THEN [opens EXCEPT ![idx].video = @ + 1]
                     ELSE opens
         /\ total_video_duration_processed' =
               IF params.caller = "cli" /\ v.ok
               THEN RAdd(total_video_duration_processed, v.duration)
               ELSE total_video_duration_processed
         /\ IF escapes
            THEN FinishJob("FAILED", "file_unreadable", TRUE)
            ELSE /\ pc' = "psv"
                 /\ cur' = [NoJob EXCEPT !.video = v]
                 /\ UNCHANGED <<jobs, idx, videos_processed_count>>
    /\ UNCHANGED <<params, tasks, fs, run, renders, unit>>

\* Mutant: the existence check is left out.
SkipExistingNever == FALSE

SkipExisting == ~Overwrite /\ Exists(Job.out)

\* process_single_video up to the dispatch: the skip, the normalization, the
\* range check and, for moviepy, the coordinate parsing.
ProcessSingleVideo ==
    /\ pc = "psv"
    /\ IF SkipExisting
       THEN FinishJob("SKIPPED_EXISTS", "exists", FALSE)
       ELSE LET final_pct == NormalizePct(params.start_percent)
            IN  IF ~ValidPct(final_pct)
                THEN FinishJob("SKIPPED_OUT_OF_RANGE", "invalid_start", FALSE)
                ELSE /\ cur' = [cur EXCEPT !.final_pct = final_pct]
                     /\ jobs' = [jobs EXCEPT ![idx].state = "PROBING"]
                     /\ pc' = params.mode
                     /\ UNCHANGED <<idx, videos_processed_count>>
    /\ UNCHANGED <<params, tasks, fs, run, total_video_duration_processed, renders,
                   opens, attempted, unit>>

\* Mutant: the smart fit is computed whatever scale was asked for.
ResolveScaleAlwaysSmart(scale, video_size, image_size, margin) ==
    CalculateSmartScale(video_size, image_size, margin)

\* mode_moviepy's target_scale: the explicit scale, else the smart fit.
ResolveScale(scale, video_size, image_size, margin) ==
    IF scale # None THEN scale[1]
    ELSE CalculateSmartScale(video_size, image_size, margin)

\* Mutant: the passthrough is dropped and the overlay is laid out regardless.
PlanKindAlwaysOverlay(dur_t) == "overlay"

PlanKind(dur_t) == IF RLeq(dur_t, R(0)) THEN "copy" ELSE "overlay"

\* mode_moviepy up to the write: the video is loaded, the timing resolved and,
\* unless the overlay is skipped, the image loaded and scaled.
MoviepyPrepare ==
    /\ pc = "moviepy"
    /\ \E img \in ImageMedia :
         LET v == cur.video
             t == GetOverlayTiming(v.duration, cur.final_pct, params.duration_sec)
             kind == PlanKind(t[2])
         IN  IF ~v.ok
             THEN /\ opens' = [opens EXCEPT ![idx].video = @ + 1]
                  /\ FinishJob("FAILED", "file_unreadable", TRUE)
             ELSE IF kind = "copy"
             THEN /\ opens' = [opens EXCEPT ![idx].video = @ + 1]
                  /\ cur' = [cur EXCEPT !.plan = [kind |-> "copy", flag |-> "none",
                                start |-> t[1], dur |-> t[2], scale |-> R(0)]]
                  /\ jobs' = [jobs EXCEPT ![idx].state = "RENDERING"]
                  /\ pc' = "moviepy_write"
                  /\ UNCHANGED <<idx, videos_processed_count>>
             ELSE IF ~img.ok
             THEN /\ opens' = [opens EXCEPT ![idx].video = @ + 1, ![idx].image = @ + 1]
                  /\ FinishJob("FAILED", "file_unreadable", TRUE)
             ELSE /\ opens' = [opens EXCEPT ![idx].video = @ + 1, ![idx].image = @ + 1]
                  /\ cur' = [cur EXCEPT !.plan = [kind |-> "overlay", flag |-> "none",
                                start |-> t[1], dur |-> t[2],
                                scale |-> ResolveScale(params.scale, v.size, img.size,
                                                       params.margin)]]
                  /\ jobs' = [jobs EXCEPT ![idx].state = "RENDERING"]
                  /\ pc' = "moviepy_write"
                  /\ UNCHANGED <<idx, videos_processed_count>>
    /\ UNCHANGED <<params, tasks, fs, run, total_video_duration_processed, renders,
                   attempted, unit>>

\* What a finished render leaves at the output path
Written(kind) == [kind |-> IF kind = "copy" THEN "passthrough" ELSE "overlay",
                  run |-> run, job |-> idx]

RenderRecord(engine, outcome) ==
    [job |-> idx, engine |-> engine, kind |-> cur.plan.kind, flag |-> cur.plan.flag,
     outcome |-> outcome, start |-> cur.plan.start, dur |-> cur.plan.dur,
     scale |-> cur.plan.scale]

\* mode_moviepy: write_videofile, of the source alone or of the composite.
MoviepyWrite ==
    /\ pc = "moviepy_write"
    /\ \E outcome \in WriteOutcomes :
         /\ renders' = Append(renders, RenderRecord("moviepy", outcome))
         /\ IF outcome = "ok"
            THEN /\ fs' = [fs EXCEPT ![Job.out] = Written(cur.plan.kind)]
                 /\ FinishJob("DONE", "none", FALSE)
            ELSE /\ fs' = fs
                 /\ FinishJob("FAILED", "encoder", TRUE)
    /\ UNCHANGED <<params, tasks, run, total_video_duration_processed, opens,
                   attempted, unit>>

\* mode_ffmpeg_cli's own copy of the scale resolution
FinalScale(scale, video_size, image_size, margin) ==
    IF scale # None THEN scale[1]
    ELSE CalculateSmartScale(video_size, image_size, margin)

\* get_media_info_ffmpeg: the probe's answer, or which of its two errors
GetMediaInfoFfmpeg(tool, media) ==
    IF tool = "missing" THEN "tool_missing"
    ELSE IF ~media.ok THEN "file_unreadable"
    ELSE "ok"

OverwriteFlag == IF Overwrite THEN "-y" ELSE "-n"

\* mode_ffmpeg_cli up to the encoder: both files are probed (an error is logged
\* and the function returns), the timing is resolved, and either the copy or
\* the scaled overlay is laid out.
FfmpegProbe ==
    /\ pc = "ffmpeg"
    /\ \E tool \in ProbeTools, img \in ImageMedia :
         LET v == cur.video
             pv == GetMediaInfoFfmpeg(tool, v)
             pi == GetMediaInfoFfmpeg(tool, img)
             t == GetOverlayTiming(v.duration, cur.final_pct, params.duration_sec)
             kind == PlanKind(t[2])
         IN  IF pv # "ok"
             THEN /\ opens' = IF tool = "missing" THEN opens
                              ELSE [opens EXCEPT ![idx].video = @ + 1]
                  /\ FinishJob("FAILED", pv, FALSE)
             ELSE IF pi # "ok"
             THEN /\ opens' = [opens EXCEPT ![idx].video = @ + 1, ![idx].image = @ + 1]
                  /\ FinishJob("FAILED", pi, FALSE)
             ELSE /\ opens' = [opens EXCEPT ![idx].video = @ + 1, ![idx].image = @ + 1]
                  /\ cur' = [cur EXCEPT !.plan =
                               IF kind = "copy"
                               THEN [kind |-> "copy", flag |-> "none",
                                     start |-> t[1], dur |-> t[2], scale |-> R(0)]
                               ELSE [kind |-> "overlay", flag |-> OverwriteFlag,
                                     start |-> t[1], dur |-> t[2],
                                     scale |-> FinalScale(params.scale, v.size,
                                                          img.size, params.margin)]]
                  /\ jobs' = [jobs EXCEPT ![idx].state = "RENDERING"]
                  /\ pc' = "ffmpeg_run"
                  /\ UNCHANGED <<idx, videos_processed_count>>
    /\ UNCHANGED <<params, tasks, fs, run, total_video_duration_processed, renders,
                   attempted, unit>>

\* Whether subprocess.run raises: the binary is not found, or check=True (the
\* overlay invocation only) meets a nonzero exit.
EncoderRaises(kind, outcome) ==
    \/ outcome = "notfound"
    \/ kind = "overlay" /\ outcome = "nonzero"

\* mode_ffmpeg_cli: the encoder process, the stream copy or the overlay render.
FfmpegRun ==
    /\ pc = "ffmpeg_run"
    /\ \E outcome \in EncoderOutcomes :
         /\ renders' = Append(renders, RenderRecord("ffmpeg", outcome))
         /\ IF outcome = "ok"
            THEN /\ fs' = [fs EXCEPT ![Job.out] = Written(cur.plan.kind)]
                 /\ FinishJob("DONE", "none", FALSE)
            ELSE /\ fs' = fs
                 /\ FinishJob("FAILED",
                              IF outcome = "notfound" THEN "encoder_missing" ELSE "encoder",
                              EncoderRaises(cur.plan.kind, outcome))
    /\ UNCHANGED <<params, tasks, run, total_video_duration_processed, opens,
                   attempted, unit>>

\* The queue is exhausted: the summary is printed.
Summary ==
    /\ pc = "loop"
    /\ idx > Len(tasks)
    /\ pc' = "summary"
    /\ UNCHANGED <<params, tasks, fs, run, idx, cur, jobs, videos_processed_count,
                   total_video_duration_processed, renders, opens, attempted, unit>>

\* The same batch is started again over the same folders.
RunAgain ==
    /\ pc = "summary"
    /\ run = 1
    /\ run' = run + 1
    /\ idx' = 1
    /\ pc' = "loop"
    /\ cur' = NoJob
    /\ jobs' = [i \in 1..Len(tasks) |-> Pending]
    /\ videos_processed_count' = 0
    /\ total_video_duration_processed' = R(0)
    /\ renders' = <<>>
    /\ opens' = [i \in 1..Len(tasks) |-> NoOpens]
    /\ attempted' = <<>>
    /\ UNCHANGED <<params, tasks, fs, unit>>

BatchStep ==
    \/ LoopNext
    \/ ProcessSingleVideo
    \/ MoviepyPrepare
    \/ MoviepyWrite
    \/ FfmpegProbe
    \/ FfmpegRun
    \/ Summary

Next == BatchStep \/ RunAgain

Spec == Init /\ [][Next]_vars

\* One run of the batch.  The control thread is the only one: a step that can
\* be taken is taken.
FairSpec == Init /\ [][BatchStep]_vars /\ WF_vars(BatchStep)

----------------------------------------------------------------------------
(* The pure functions on their own, over a grid of inputs *)

UnitDurations == {Rat(k, 2) : k \in 0..(2 * MaxDur)}
UnitFractions == {Rat(k, 20) : k \in 0..20}
UnitRequests == {Rat(k, 2) : k \in 1..(2 * MaxReq)}
Dims == {1, 100, 360, 640}
UnitMargins == {R(0), Rat(5, 100), Rat(1, 10), Rat(1, 4), Rat(49, 100)}
UnitStartInputs == {Rat(k, 4) : k \in (-8)..8} \cup {R(k) : k \in 2..MaxPct}

InitUnit ==
    /\ params = [caller |-> "cli", mode |-> "moviepy", overwrite |-> FALSE,
                 start_percent |-> R(75), duration_sec |-> R(MaxReq),
                 scale |-> None, margin |-> R(0)]
    /\ tasks = DiscoverTasks(1)
    /\ fs = [p \in OutPaths |-> NoFile]
    /\ run = 1
    /\ StartRun(1)
    /\ unit = UnitIdle

CallTiming ==
    /\ unit = UnitIdle
    /\ \E d \in UnitDurations, p \in UnitFractions, r \in UnitRequests :
         unit' = [op |-> "timing", in |-> <<d, p, r>>,
                  out |-> GetOverlayTiming(d, p, r), ok |-> TRUE, rejected |-> FALSE]
    /\ UNCHANGED batchVars

CallSmartScale ==
    /\ unit = UnitIdle
    /\ \E vw \in Dims, vh \in Dims, iw \in Dims, ih \in Dims, m \in UnitMargins :
         unit' = [op |-> "scale", in |-> <<R(vw), R(vh), R(iw), R(ih), m>>,
                  out |-> <<CalculateSmartScale(<<vw, vh>>, <<iw, ih>>, m)>>,
                  ok |-> TRUE, rejected |-> FALSE]
    /\ UNCHANGED batchVars

CallNormalize ==
    /\ unit = UnitIdle
    /\ \E sp \in UnitStartInputs :
         unit' = [op |-> "normalize", in |-> <<sp>>,
                  out |-> <<NormalizePct(sp), SingleNormalizePct(sp)>>,
                  ok |-> ValidPct(NormalizePct(sp)),
                  rejected |-> SingleRejects(SingleNormalizePct(sp))]
    /\ UNCHANGED batchVars

\* --position values: the five anchors, another word, and "x,y" strings, well
\* formed and not
In_middle == <<"m", "i", "d", "d", "l", "e">>
In_padded == <<" ", "1", "0", " ", ",", " ", "2", "0", " ">>
In_decimal == <<"1", ".", "5", ",", "2">>
In_10_20 == <<"1", "0", ",", "2", "0">>
In_negative == <<"-", "1", "0", ",", "2", "0">>
In_signed == <<"+", "5", ",", "5">>
In_word == <<"a", "b", "c", ",", "2", "0">>
In_empty_y == <<"1", "0", ",">>
In_three == <<"1", ",", "2", ",", "3">>
In_two_dots == <<"1", ".", "2", ".", "3", ",", "4">>
In_dot == <<".", ",", "1">>
In_empty == <<>>

UnitPositions ==
    { S_center, S_top_left, S_top_right, S_bottom_left, S_bottom_right, In_middle,
      In_10_20, In_padded, In_decimal, In_negative, In_signed, In_word, In_empty_y,
      In_three, In_two_dots, In_dot, In_empty }

UnitScales == {None, Some(Rat(1, 2)), Some(R(2))}
VideoDims == {360, 640}

CallResolveScale ==
    /\ unit = UnitIdle
    /\ \E sc \in UnitScales, vw \in VideoDims, vh \in VideoDims, iw \in Dims, ih \in Dims,
          m \in UnitMargins :
         unit' = [op |-> "resolve_scale", in |-> <<sc, R(vw), R(vh), R(iw), R(ih), m>>,
                  out |-> <<ResolveScale(sc, <<vw, vh>>, <<iw, ih>>, m),
                            FinalScale(sc, <<vw, vh>>, <<iw, ih>>, m)>>,
                  ok |-> TRUE, rejected |-> FALSE]
    /\ UNCHANGED batchVars

\* The control panel's widgets: the margin slider (0 to 50, step 1) and the
\* force-scale number field
MarginSliderMax == 50
GuiMarginValues == 0..MarginSliderMax
GuiScaleValues == {R(-1), R(0), Rat(1, 2), R(2)}
\* The CLI's --scale and --margin: any float
CliScaleValues == {None, Some(R(-1)), Some(R(0)), Some(Rat(1, 2))}
CliMarginValues == {R(0), Rat(5, 100), Rat(1, 2), Rat(6, 10)}

\* run_processing_job: the conversion of the two widget values
GuiFinalScale(scale_input) == IF RLt(R(0), scale_input) THEN Some(scale_input) ELSE None
GuiFinalMargin(margin_pct) == Rat(margin_pct, 100)

\* A caller's scale and margin, through process_single_video (which hands them
\* on unchanged), as a backend resolves them for a 640x360 video and a
\* 100x100 image
CallCallerScale ==
    /\ unit = UnitIdle
    /\ \/ \E si \in GuiScaleValues, mp \in GuiMarginValues :
            unit' = [op |-> "caller_scale", in |-> <<"gui", GuiFinalScale(si), GuiFinalMargin(mp)>>,
                     out |-> <<ResolveScale(GuiFinalScale(si), <<640, 360>>, <<100, 100>>,
                                            GuiFinalMargin(mp)),
                               FinalScale(GuiFinalScale(si), <<640, 360>>, <<100, 100>>,
                                          GuiFinalMargin(mp))>>,
                     ok |-> TRUE, rejected |-> FALSE]
       \/ \E sc \in CliScaleValues, m \in CliMarginValues :
            unit' = [op |-> "caller_scale", in |-> <<"cli", sc, m>>,
                     out |-> <<ResolveScale(sc, <<640, 360>>, <<100, 100>>, m),
                               FinalScale(sc, <<640, 360>>, <<100, 100>>, m)>>,
                     ok |-> TRUE, rejected |-> FALSE]
    /\ UNCHANGED batchVars

\* The position of one job as each call site resolves it: what
\* process_single_video hands to mode_moviepy and to mode_ffmpeg_cli, the
\* overlay_xy of the filter, and what add_product_placement.main hands to its
\* mode_moviepy
CallPosition ==
    /\ unit = UnitIdle
    /\ \E position \in UnitPositions :
         unit' = [op |-> "position", in |-> <<position>>,
                  out |-> <<PosArg("moviepy", position), PosArg("ffmpeg", position),
                            PosMapGet(PosArg("ffmpeg", position).str),
                            SinglePosArg(position)>>,
                  ok |-> TRUE, rejected |-> FALSE]
    /\ UNCHANGED batchVars

\* The placement mode_moviepy resolves: timing, target_scale, position
MoviepyPlacement(pos_arg, scale, margin, start_pct, duration_sec, v, img) ==
    LET t == GetOverlayTiming(v.duration, start_pct, duration_sec)
    IN  IF PlanKind(t[2]) = "copy"
        THEN [start |-> t[1], dur |-> t[2], scale |-> R(0), position |-> NoPos]
        ELSE [start |-> t[1], dur |-> t[2],
              scale |-> ResolveScale(scale, v.size, img.size, margin),
              position |-> pos_arg]

\* The placement mode_ffmpeg_cli resolves: timing, final_scale, overlay_xy
FfmpegPlacement(position, scale, margin, start_pct, duration_sec, v, img) ==
    LET t == GetOverlayTiming(v.duration, start_pct, duration_sec)
    IN  IF PlanKind(t[2]) = "copy"
        THEN [start |-> t[1], dur |-> t[2], scale |-> R(0), position |-> NoPos]
        ELSE [start |-> t[1], dur |-> t[2],
              scale |-> FinalScale(scale, v.size, img.size, margin),
              position |-> PosStr(PosMapGet(position))]

\* process_single_video's dispatch, after the normalization
Dispatch(mode, position, scale, margin, final_pct, duration_sec, v, img) ==
    IF mode = "moviepy"
    THEN MoviepyPlacement(PosArg(mode, position), scale, margin, final_pct,
                          duration_sec, v, img)
    ELSE FfmpegPlacement(PosArg(mode, position).str, scale, margin, final_pct,
                         duration_sec, v, img)

DispatchFractions == {Rat(3, 4), Rat(19, 20), R(1)}

\* The same job and the same media through both backends, and whether the
\* job is an overlay or a plain copy
CallDispatch ==
    /\ unit = UnitIdle
    /\ \E position \in UnitPositions, ss \in ScaleSpecs, p \in DispatchFractions,
          d \in DurationSecs, v \in VideoMedia, img \in ImageMedia :
         /\ v.ok /\ img.ok
         /\ unit' = [op |-> "dispatch", in |-> <<position, ss[1], ss[2], p, d, v, img>>,
                     out |-> <<Dispatch("moviepy", position, ss[1], ss[2], p, d, v, img),
                               Dispatch("ffmpeg", position, ss[1], ss[2], p, d, v, img),
                               PlanKind(GetOverlayTiming(v.duration, p, d)[2])>>,
                     ok |-> TRUE, rejected |-> FALSE]
    /\ UNCHANGED batchVars

\* Mutant: the image layer is still shown at its end time.
ImagePlayingClosed(t, start_t, dur_t) ==
    RLeq(start_t, t) /\ RLeq(t, RAdd(start_t, dur_t))

\* The image clip with_duration(dur_t).with_start(start_t) is part of the
\* composite at t
ImagePlaying(t, start_t, dur_t) ==
    RLeq(start_t, t) /\ RLt(t, RAdd(start_t, dur_t))

\* CrossFadeIn / CrossFadeOut: the share of the image's opacity at `local`
\* seconds into a clip of dur_t seconds
FadeFactor(local, dur_t, fade_in, fade_out) ==
    LET fi == IF RLt(R(0), fade_in) /\ RLt(local, fade_in)
              THEN RDiv(local, fade_in) ELSE R(1)
        fo == IF RLt(R(0), fade_out) /\ RLt(RSub(dur_t, local), fade_out)
              THEN RDiv(RSub(dur_t, local), fade_out) ELSE R(1)
    IN  RMul(fi, fo)

\* mode_moviepy's output, as <<duration, layer, opacity, start_t, dur_t>>: its
\* duration, whether the image layer is part of the frame at t and how much of
\* the image shows there (0: the frame is the source's), and the timing
MoviepyFrame(t, video_duration, start_pct, duration_sec, fade_in, fade_out) ==
    LET tm == GetOverlayTiming(video_duration, start_pct, duration_sec)
        layer == PlanKind(tm[2]) = "overlay" /\ ImagePlaying(t, tm[1], tm[2])
    IN  << video_duration, layer,
           IF layer THEN FadeFactor(RSub(t, tm[1]), tm[2], fade_in, fade_out) ELSE R(0),
           tm[1], tm[2] >>

\* ffmpeg's between(t, min, max): min <= t <= max
Between(t, min, max) == RLeq(min, t) /\ RLeq(t, max)

\* mode_ffmpeg_cli's output, as <<duration, enabled, from, to, start_t, end_t>>:
\* whether the frame at t has the overlay enabled, the two bounds as the filter
\* text gives them, and the timing
FfmpegFrame(t, total_duration, start_pct, duration_sec) ==
    LET tm == GetOverlayTiming(total_duration, start_pct, duration_sec)
        end_t == RAdd(tm[1], tm[2])
    IN  << total_duration,
           PlanKind(tm[2]) = "overlay" /\ Between(t, Format3f(tm[1]), Format3f(end_t)),
           Format3f(tm[1]), Format3f(end_t), tm[1], end_t >>

\* durations: whole seconds, and two that are not a whole number of thousandths
FrameDurations == {R(MaxDur), Rat(10, 3), Rat(20, 3)}
FrameFractions == {R(0), Rat(3, 4), Rat(19, 20), R(1)}
FrameRequests == {R(2), R(MaxReq)}
Fades == {R(0), Rat(1, 2)}
\* the times of frames, four a second; a video of duration d has those before d
FrameTimes == {Rat(k, 4) : k \in 0..(4 * MaxDur)}

CallMoviepyFrame ==
    /\ unit = UnitIdle
    /\ \E d \in FrameDurations, p \in FrameFractions, r \in FrameRequests,
          fi \in Fades, fo \in Fades, t \in FrameTimes :
         /\ RLt(t, d)
         /\ unit' = [op |-> "moviepy_frame", in |-> <<t, d, p, r, fi, fo>>,
                     out |-> MoviepyFrame(t, d, p, r, fi, fo),
                     ok |-> TRUE, rejected |-> FALSE]
    /\ UNCHANGED batchVars

CallFfmpegFrame ==
    /\ unit = UnitIdle
    /\ \E d \in FrameDurations, p \in FrameFractions, r \in FrameRequests,
          t \in FrameTimes :
         /\ RLt(t, d)
         /\ unit' = [op |-> "ffmpeg_frame", in |-> <<t, d, p, r>>,
                     out |-> FfmpegFrame(t, d, p, r),
                     ok |-> TRUE, rejected |-> FALSE]
    /\ UNCHANGED batchVars

NextUnit ==
    \/ CallTiming
    \/ CallSmartScale
    \/ CallNormalize
    \/ CallResolveScale
    \/ CallCallerScale
    \/ CallPosition
    \/ CallDispatch
    \/ CallMoviepyFrame
    \/ CallFfmpegFrame

SpecUnit == InitUnit /\ [][NextUnit]_vars

----------------------------------------------------------------------------
(* C1..C3: the pure calculations *)

\* C1: for every video duration D > 0, start fraction p in [0,1] and requested
\* duration r > 0, get_overlay_timing returns start = D*p; actual = 0 when
\* start >= D and min(r, D - start) otherwise; actual >= 0 in every case;
\* (10, 0.75, 2) gives (7.5, 2) and (10, 0.95, 5) gives (9.5, 0.5).
C1_TimingContract ==
    unit.op = "timing" =>
        LET D == unit.in[1]
            p == unit.in[2]
            r == unit.in[3]
            start == unit.out[1]
            actual == unit.out[2]
        IN  (RLt(R(0), D) /\ RLeq(R(0), p) /\ RLeq(p, R(1)) /\ RLt(R(0), r)) =>
              /\ start = Rat(D[1] * p[1], D[2] * p[2])
              /\ RLeq(D, start) => actual = R(0)
              /\ RLt(start, D) =>
                    /\ RLeq(actual, r)
                    /\ RLeq(actual, RSub(D, start))
                    /\ actual = r \/ actual = RSub(D, start)
              /\ RLeq(R(0), actual)
              /\ (D = R(10) /\ p = Rat(3, 4) /\ r = R(2)) =>
                    (start = Rat(15, 2) /\ actual = R(2))
              /\ (D = R(10) /\ p = Rat(19, 20) /\ r = R(5)) =>
                    (start = Rat(19, 2) /\ actual = Rat(1, 2))

\* C1 witness: a call whose requested duration is cut to the remaining time.
C1_Witness ==
    /\ unit.op = "timing"
    /\ unit.in = <<R(10), Rat(19, 20), R(5)>>
    /\ unit.out = <<Rat(19, 2), Rat(1, 2)>>

\* C2: with no explicit scale, calculate_smart_scale returns
\* min(vw*(1-2m)/iw, vh*(1-2m)/ih), and for positive sizes and 0 <= m < 0.5 the
\* scaled asset fits the safe area on both axes; 640x360, 100x100, m = 0.05
\* gives 3.24.
C2_SmartScaleFits ==
    unit.op = "scale" =>
        LET vw == unit.in[1]
            vh == unit.in[2]
            iw == unit.in[3]
            ih == unit.in[4]
            m == unit.in[5]
            scale == unit.out[1]
            keep == Rat(m[2] - 2 * m[1], m[2])
            safe_w == RMul(vw, keep)
            safe_h == RMul(vh, keep)
            cand_w == RDiv(safe_w, iw)
            cand_h == RDiv(safe_h, ih)
        IN  (RLeq(R(0), m) /\ RLt(m, Rat(1, 2))) =>
              /\ scale = cand_w \/ scale = cand_h
              /\ RLeq(scale, cand_w) /\ RLeq(scale, cand_h)
              /\ RLeq(RMul(iw, scale), safe_w)
              /\ RLeq(RMul(ih, scale), safe_h)
              /\ (vw = R(640) /\ vh = R(360) /\ iw = R(100) /\ ih = R(100)
                  /\ m = Rat(5, 100)) => scale = Rat(324, 100)

\* C2 witness: the documented case, where the height is the constraint.
C2_Witness ==
    /\ unit.op = "scale"
    /\ unit.in = <<R(640), R(360), R(100), R(100), Rat(1, 20)>>
    /\ unit.out = <<Rat(81, 25)>>

\* C3: a start value > 1.0 is divided by 100, a value <= 1.0 is used as is; the
\* job is rejected exactly when the fraction is outside [0,1], in
\* process_single_video and in the single-file main alike; 75 and 0.75 both
\* give 0.75, 105 and every negative input are rejected.
C3_PercentNormalization ==
    unit.op = "normalize" =>
        LET sp == unit.in[1]
            frac == IF sp[1] > sp[2] THEN Rat(sp[1], 100 * sp[2]) ELSE sp
            inside == frac[1] >= 0 /\ frac[1] <= frac[2]
        IN  /\ unit.out[1] = frac
            /\ unit.out[2] = frac
            /\ unit.ok <=> inside
            /\ unit.rejected <=> ~inside
            /\ sp \in {R(75), Rat(3, 4)} => (unit.out[1] = Rat(3, 4) /\ unit.ok)
            /\ sp = R(105) => (~unit.ok /\ unit.rejected)
            /\ sp[1] < 0 => (~unit.ok /\ unit.rejected)

\* C3 witness: the percentage 75 has been normalized to 0.75 and accepted.
C3_Witness ==
    /\ unit.op = "normalize"
    /\ unit.in = <<R(75)>>
    /\ unit.out[1] = Rat(3, 4)
    /\ unit.ok

----------------------------------------------------------------------------
(* C4..C10: the batch *)

JobIds == 1..Len(tasks)
RenderIds == 1..Len(renders)
Terminal == {"DONE", "FAILED", "SKIPPED_EXISTS", "SKIPPED_OUT_OF_RANGE"}
OutOf(j) == tasks[j].out

\* The loop has taken up the jobs 1, 2, ... in queue order, each once, and at
\* the summary it has taken up all of them.
AttemptedInOrder ==
    /\ attempted = [i \in 1..Len(attempted) |-> i]
    /\ pc = "summary" => Len(attempted) = Len(tasks)
    /\ \A i \in JobIds : i < idx => jobs[i].state \in Terminal

\* C4: whatever subset of the jobs fails in probing or rendering, every job of
\* the queue is attempted exactly once in queue order and the batch reaches its
\* summary; a failure in job i never keeps jobs i+1..n from being processed.
C4_FailureIsolation ==
    /\ []AttemptedInOrder
    /\ <>(pc = "summary" /\ Len(attempted) = Len(tasks))

\* C4 witness: the summary is reached although an earlier job raised, and a job
\* after the failed one was rendered.
C4_Witness ==
    /\ pc = "summary"
    /\ \E i, j \in JobIds :
         /\ i < j
         /\ jobs[i].state = "FAILED" /\ jobs[i].recorded = "failed"
         /\ jobs[j].state = "DONE"

\* C5 (as claimed): at the end of a batch the 'succeeded' count equals the
\* number of jobs whose outcome is DONE; skipped, rejected and failed jobs are
\* not counted.
C5_SucceededCountsDone ==
    pc = "summary" =>
        videos_processed_count = Cardinality({i \in JobIds : jobs[i].state = "DONE"})

\* The skip step of process_single_video: no backend, no encoder, no write.
SkipStepIsInert ==
    (pc = "psv" /\ ~params.overwrite /\ Exists(OutOf(idx))) =>
        /\ jobs'[idx].state = "SKIPPED_EXISTS"
        /\ fs' = fs
        /\ renders' = renders
        /\ pc' = "loop"

\* With overwrite off no step changes a file that is there.
ExistingOutputKept ==
    ~params.overwrite => \A p \in OutPaths : Exists(p) => fs'[p] = fs[p]

\* With overwrite off every write or encoder run of this run went to a path that
\* held nothing when the job was reached.
RendersOnlyOntoNew ==
    ~params.overwrite =>
        \A k \in RenderIds :
            LET f == fs[OutOf(renders[k].job)]
            IN  f.kind = "none" \/ f.run = run

\* No file at an output path is one this run wrote.
NothingWrittenThisRun == \A p \in OutPaths : fs[p].kind = "none" \/ fs[p].run # run

\* A second run that found every output in place has rendered nothing.
SecondRunOverComplete ==
    (run = 2 /\ ~params.overwrite /\ NothingWrittenThisRun
     /\ \A j \in JobIds : Exists(OutOf(j))) => renders = <<>>

PassthroughPlanned ==
    pc \in {"moviepy_write", "ffmpeg_run"} =>
        LET t == GetOverlayTiming(cur.video.duration, cur.final_pct, params.duration_sec)
        IN  /\ cur.plan.dur = t[2]
            /\ RLeq(cur.video.duration, RMul(cur.video.duration, cur.final_pct))
                  => cur.plan.dur = R(0)
            /\ cur.plan.dur = R(0) => cur.plan.kind = "copy"

\* The write of a plain copy: no overlay, and when it goes through the output
\* holds the source and the job has returned normally.
PassthroughWritten ==
    (pc \in {"moviepy_write", "ffmpeg_run"} /\ cur.plan.dur = R(0)) =>
        LET rec == renders'[Len(renders')]
        IN  /\ Len(renders') = Len(renders) + 1
            /\ rec.job = idx /\ rec.kind = "copy"
            /\ rec.outcome = "ok" =>
                  /\ fs'[OutOf(idx)] = [kind |-> "passthrough", run |-> run, job |-> idx]
                  /\ jobs'[idx].state = "DONE"
                  /\ jobs'[idx].recorded = "counted"

C8_NonzeroExitFails ==
    \A k \in RenderIds :
        (renders[k].engine = "ffmpeg" /\ renders[k].outcome = "nonzero") =>
            /\ jobs[renders[k].job].state = "FAILED"
            /\ jobs[renders[k].job].recorded = "failed"

\* C9 (as claimed): when the media probe fails for a job's video or image (tool
\* missing, or file unreadable) the job is recorded as a failure, not a success,
\* with a reason telling the two apart, the encoder is never invoked for it,
\* and the batch goes on.
C9_ProbeFailureRecorded ==
    \A i \in JobIds :
        (params.mode = "ffmpeg" /\ jobs[i].reason \in {"tool_missing", "file_unreadable"}) =>
            /\ jobs[i].state = "FAILED"
            /\ jobs[i].recorded = "failed"
            /\ \A k \in RenderIds : renders[k].job # i
            /\ idx > i

\* C10 (as claimed): a job whose start fraction is outside [0,1] is detected
\* before any render attempt, is not dispatched to a backend, is treated as
\* skipped rather than succeeded, and the batch goes on.
C10_InvalidStartSkipped ==
    \A i \in JobIds :
        jobs[i].state = "SKIPPED_OUT_OF_RANGE" =>
            /\ \A k \in RenderIds : renders[k].job # i
            /\ opens[i].image = 0
            /\ idx > i
            /\ jobs[i].recorded # "counted"

----------------------------------------------------------------------------
(* C11: the life of a job *)

InBackend(i) == jobs[i].state \in {"PROBING", "RENDERING"}

\* Strictly sequential: one job at a time, in queue order.
OneJobAtATime ==
    /\ Cardinality({i \in JobIds : InBackend(i)}) <= 1
    /\ \A i \in JobIds : InBackend(i) => i = idx
    /\ \A i, j \in JobIds :
          (i < j /\ jobs[j].state # "PENDING") => jobs[i].state \in Terminal

\* The state changes of the spec's machine, a failure allowed from every
\* non-terminal state.
MachineSteps ==
    { <<"PENDING", "SKIPPED_EXISTS">>, <<"PENDING", "PROBING">>, <<"PENDING", "FAILED">>,
      <<"PROBING", "SKIPPED_OUT_OF_RANGE">>, <<"PROBING", "RENDERING">>,
      <<"PROBING", "FAILED">>,
      <<"RENDERING", "DONE">>, <<"RENDERING", "FAILED">> }

\* The state changes the code makes: the range check comes before the backend
\* and its probes.
CodeSteps ==
    { <<"PENDING", "SKIPPED_EXISTS">>, <<"PENDING", "SKIPPED_OUT_OF_RANGE">>,
      <<"PENDING", "PROBING">>, <<"PENDING", "FAILED">>,
      <<"PROBING", "RENDERING">>, <<"PROBING", "FAILED">>,
      <<"RENDERING", "DONE">>, <<"RENDERING", "FAILED">> }

\* Within one run every change of a job's state is one of `steps`.
StepsWithin(steps) ==
    run' = run =>
        \A i \in JobIds :
            jobs'[i].state # jobs[i].state => <<jobs[i].state, jobs'[i].state>> \in steps

\* A skipped or rejected job was never in a backend: its image was not opened,
\* nothing was rendered for it, and its video was opened at most by main's
\* get_vid_duration.
SkippedOutsideBackend ==
    \A i \in JobIds :
        jobs[i].state \in {"SKIPPED_EXISTS", "SKIPPED_OUT_OF_RANGE"} =>
            /\ opens[i].image = 0
            /\ opens[i].video = IF params.caller = "cli" THEN 1 ELSE 0
            /\ \A k \in RenderIds : renders[k].job # i

\* A job that ends SKIPPED_EXISTS was never probed.
SkippedNeverProbed ==
    \A i \in JobIds :
        jobs[i].state = "SKIPPED_EXISTS" => (opens[i].video = 0 /\ opens[i].image = 0)

\* C11 (amended): jobs are processed strictly sequentially, and each job goes
\* PENDING -> (SKIPPED_EXISTS | SKIPPED_OUT_OF_RANGE | PROBING | FAILED),
\* PROBING -> (RENDERING | FAILED), RENDERING -> (DONE | FAILED): at most one
\* job is in a backend at any time, job i+1 leaves PENDING only after job i is
\* terminal, a terminal state is never left, and a skipped or rejected job
\* never enters a backend (main has read its video's duration for the metric).
C11_JobStateMachine ==
    /\ []OneJobAtATime
    /\ [][StepsWithin(CodeSteps)]_vars
    /\ []SkippedOutsideBackend

\* C11 (as claimed): the machine PENDING -> (SKIPPED_EXISTS | PROBING) ->
\* (SKIPPED_OUT_OF_RANGE | RENDERING) -> (DONE | FAILED), with a job that ends
\* SKIPPED_EXISTS never probed.
C11_MachineAsClaimed ==
    /\ []OneJobAtATime
    /\ [][StepsWithin(MachineSteps)]_vars
    /\ []SkippedNeverProbed

\* C11 witness: a batch of three at its summary: the first job rendered, the
\* second failed in its backend, the third skipped over the first one's output.
C11_Witness ==
    /\ pc = "summary"
    /\ Len(tasks) = 3
    /\ jobs[1].state = "DONE"
    /\ jobs[2].state = "FAILED" /\ opens[2].image = 1
    /\ jobs[3].state = "SKIPPED_EXISTS"

----------------------------------------------------------------------------
(* C12, C13: the scale *)

\* C12: with an explicit scale both backends apply exactly that factor,
\* whatever the margin and the sizes; only with no explicit scale is the result
\* the smart fit for the margin.
C12_ExplicitScaleWins ==
    unit.op = "resolve_scale" =>
        LET sc == unit.in[1]
            smart == CalculateSmartScale(<<unit.in[2][1], unit.in[3][1]>>,
                                         <<unit.in[4][1], unit.in[5][1]>>, unit.in[6])
        IN  IF sc # None
            THEN unit.out[1] = sc[1] /\ unit.out[2] = sc[1]
            ELSE unit.out[1] = smart /\ unit.out[2] = smart

\* C12 witness: a forced scale of 1/2 is applied by both backends although the
\* smart fit for the margin would be another factor.
C12_Witness ==
    /\ unit.op = "resolve_scale"
    /\ unit.in[1] = Some(Rat(1, 2))
    /\ unit.in[6] = Rat(1, 4)
    /\ unit.out = <<Rat(1, 2), Rat(1, 2)>>
    /\ CalculateSmartScale(<<unit.in[2][1], unit.in[3][1]>>,
                           <<unit.in[4][1], unit.in[5][1]>>, unit.in[6]) # Rat(1, 2)

\* C13 (as claimed): the scale a backend resolves is strictly positive for
\* every scale and margin a caller can pass.
C13_ScalePositive ==
    unit.op = "caller_scale" =>
        RLt(R(0), unit.out[1]) /\ RLt(R(0), unit.out[2])

----------------------------------------------------------------------------
(* C14..C17: the position *)

\* What "parses as a number" means: float() accepts the trimmed text, an
\* optional sign and digits with at most one point.
Unsigned(s) ==
    LET u == Strip(s)
    IN  IF u # <<>> /\ u[1] \in {"+", "-"} THEN Tail(u) ELSE u

NumLit(s) == IsDigit(ReplaceFirst(Unsigned(s), "."))

NumVal(s) ==
    LET v == Float(Unsigned(s))
        u == Strip(s)
    IN  IF u[1] = "-" THEN Rat(-v[1], v[2]) ELSE v

WellFormedPair(position) ==
    LET parts == Split(position, ",")
    IN  Len(parts) = 2 /\ NumLit(parts[1]) /\ NumLit(parts[2])

\* C14 (as claimed): a "x,y" string whose two trimmed components parse as
\* numbers, signed ones included, resolves to the coordinate pair of those
\* numbers.
C14_NumericPairParsed ==
    unit.op = "position" =>
        LET parts == Split(unit.in[1], ",")
        IN  WellFormedPair(unit.in[1]) =>
                unit.out[1] = PosXY(NumVal(parts[1]), NumVal(parts[2]))

\* C15 (as claimed): for a position string with a comma whose components do
\* not both parse as numbers, process_single_video hands the default
\* coordinate (0.0, 0.0) to the backend, whichever backend it is.
C15_MalformedFallsBack ==
    (unit.op = "position" /\ Contains(unit.in[1], ",") /\ ~WellFormedPair(unit.in[1])) =>
        /\ unit.out[1] = PosXY(R(0), R(0))
        /\ unit.out[2] = PosXY(R(0), R(0))

\* The coordinate expressions of the shared table
Expr(x, y) == <<"x", "=">> \o x \o <<":", "y", "=">> \o y
E_zero == <<"0">>
E_right == <<"W", "-", "w">>
E_bottom == <<"H", "-", "h">>
E_center_x == <<"(", "W", "-", "w", ")", "/", "2">>
E_center_y == <<"(", "H", "-", "h", ")", "/", "2">>

\* C16: in mode_ffmpeg_cli each of the five anchors maps to its expression of
\* the shared table, and any other position string goes into the filter
\* unchanged.
C16_NamedPositionTotal ==
    unit.op = "position" =>
        LET position == unit.in[1]
            overlay_xy == unit.out[3]
        IN  /\ position = S_center => overlay_xy = Expr(E_center_x, E_center_y)
            /\ position = S_top_left => overlay_xy = Expr(E_zero, E_zero)
            /\ position = S_top_right => overlay_xy = Expr(E_right, E_zero)
            /\ position = S_bottom_left => overlay_xy = Expr(E_zero, E_bottom)
            /\ position = S_bottom_right => overlay_xy = Expr(E_right, E_bottom)
            /\ position \notin {S_center, S_top_left, S_top_right, S_bottom_left,
                                S_bottom_right} => overlay_xy = position

\* C16 witness: a word that is no anchor has gone into the filter as it is.
C16_Witness ==
    /\ unit.op = "position"
    /\ unit.in[1] = In_middle
    /\ unit.out[3] = In_middle

\* The position mode_moviepy got and the overlay_xy of the filter are the same
\* place: a keyword and its table expression (any other word as it is), or a
\* coordinate pair and a text that reads as that pair.
SamePosition(pos_arg, overlay_xy) ==
    IF pos_arg.kind = "str"
    THEN overlay_xy.str = PosMapGet(pos_arg.str)
    ELSE LET parts == Split(overlay_xy.str, ",")
         IN  /\ WellFormedPair(overlay_xy.str)
             /\ NumVal(parts[1]) = pos_arg.x
             /\ NumVal(parts[2]) = pos_arg.y

\* C17 (as claimed): the same job and media dispatched to mode_moviepy and to
\* mode_ffmpeg_cli resolve the same start time, actual duration, scale and
\* overlay position, for anchors and for well-formed and malformed "x,y".
C17_BackendsAgree ==
    unit.op = "dispatch" =>
        LET a == unit.out[1]
            b == unit.out[2]
        IN  /\ a.start = b.start
            /\ a.dur = b.dur
            /\ a.scale = b.scale
            /\ SamePosition(a.position, b.position)

----------------------------------------------------------------------------
(* C18, C19: the overlay window *)

InWindow(t, video_duration, start_pct, duration_sec) ==
    LET tm == GetOverlayTiming(video_duration, start_pct, duration_sec)
    IN  RLeq(tm[1], t) /\ RLt(t, RAdd(tm[1], tm[2]))

C19_FfmpegClosedOpen ==
    unit.op = "ffmpeg_frame" =>
        (unit.out[2] <=> InWindow(unit.in[1], unit.in[2], unit.in[3], unit.in[4]))

----------------------------------------------------------------------------
(* C20: the encoder's overwrite flag *)

\* C20 (as claimed): every encoder invocation of mode_ffmpeg_cli, the overlay
\* render and the passthrough copy, carries -y when overwrite is set and -n
\* when it is not.
C20_OverwriteFlagAlways ==
    \A k \in RenderIds :
        renders[k].engine = "ffmpeg" =>
            renders[k].flag = IF params.overwrite THEN "-y" ELSE "-n"

----------------------------------------------------------------------------
(* C21: media info, once per file per job *)

\* C21 (as claimed): within a job of the batch each file's media info is
\* obtained at most once: the video is never opened or probed twice, nor the
\* image; a job that got through to DONE has opened each exactly once; and
\* between jobs nothing of the last job's media is kept.
C21_MediaInfoOnce ==
    /\ \A i \in JobIds :
          /\ opens[i].video <= 1
          /\ opens[i].image <= 1
          /\ jobs[i].state = "DONE" => (opens[i].video = 1 /\ opens[i].image = 1)
    /\ pc \in {"loop", "summary"} => cur = NoJob

----------------------------------------------------------------------------
(* C22: the window lies inside the video *)

\* For D > 0, p in [0,1] and r > 0, a call of get_overlay_timing with
\* actual > 0 has 0 <= start < D and start + actual <= D.
TimingInsideVideo ==
    unit.op = "timing" =>
        LET D == unit.in[1]
            p == unit.in[2]
            r == unit.in[3]
            start == unit.out[1]
            actual == unit.out[2]
        IN  (RLt(R(0), D) /\ RLeq(R(0), p) /\ RLeq(p, R(1)) /\ RLt(R(0), r)
               /\ RLt(R(0), actual)) =>
              /\ RLeq(R(0), start)
              /\ RLt(start, D)
              /\ RLeq(RAdd(start, actual), D)

\* The image clip of mode_moviepy starts and ends inside the video.
MoviepyInsideVideo ==
    unit.op = "moviepy_frame" =>
        LET start_t == unit.out[4]
            dur_t == unit.out[5]
        IN  RLt(R(0), dur_t) =>
              /\ RLeq(R(0), start_t)
              /\ RLt(start_t, unit.out[1])
              /\ RLeq(RAdd(start_t, dur_t), unit.out[1])

\* The filter of mode_ffmpeg_cli is enabled up to a time that is at most `slack`
\* past the video's end.
FfmpegEndWithin(slack) ==
    unit.op = "ffmpeg_frame" =>
        LET start_t == unit.out[5]
            end_t == unit.out[6]
        IN  RLt(start_t, end_t) =>
              /\ RLeq(R(0), start_t)
              /\ RLt(start_t, unit.out[1])
              /\ RLeq(end_t, unit.out[1])
              /\ RLeq(unit.out[4], RAdd(unit.out[1], slack))

----------------------------------------------------------------------------
(* C23: one output path per source video *)

\* C23 (as claimed): within one batch distinct discovered videos have distinct
\* output paths, so no output a job completed is written over by a later job of
\* the same run, and no job is skipped as "already exists" over a file an
\* earlier job of the same run wrote; also for files that share a basename and
\* differ in extension.
C23_DistinctOutputs ==
    /\ \A i, j \in JobIds : tasks[i].vid # tasks[j].vid => OutOf(i) # OutOf(j)
    /\ \A k, l \in RenderIds :
          (k < l /\ renders[k].job # renders[l].job
           /\ renders[k].outcome = "ok" /\ renders[l].outcome = "ok") =>
              OutOf(renders[k].job) # OutOf(renders[l].job)
    /\ \A j \in JobIds :
          jobs[j].state = "SKIPPED_EXISTS" =>
              ~(fs[OutOf(j)].run = run /\ fs[OutOf(j)].job < j)

====
